---- MODULE Spec2Model ----
(***************************************************************************)
(* Model of the Data Clearinghouse application (src/app/app.py): main(),   *)
(* the poll loop watch_s3_bucket(), the per-object pipeline                *)
(* process_s3_file() and the three ledger operations, over an S3 bucket    *)
(* and the two PostgreSQL tables file_processing_log and processed_data.   *)
(***************************************************************************)
EXTENDS Integers, Sequences, FiniteSets, TLC

(***************************************************************************)
(* Bounds of the model.                                                    *)
(***************************************************************************)
\* number of .json keys
MaxStems == 2
\* events of the environment in a run: failures of external calls (S3,
\* PostgreSQL), kills of the process, uploads to the bucket
MaxEvents == 3
\* calls of the ledger operations in a run of LedgerSpec
MaxCalls == 3
\* length of the sequences in a JSON payload
MaxLen == 2

None == "None"

(***************************************************************************)
(* Python / JSON values, tagged with their Python type.                    *)
(***************************************************************************)
JNull == [t |-> "NoneType", v |-> None]
JInt(n) == [t |-> "int", v |-> n]
JStr(s) == [t |-> "str", v |-> s]
JList(s) == [t |-> "list", v |-> s]
JDict(f) == [t |-> "dict", v |-> f]

isinstance(x, ty) == x.t = ty

(***************************************************************************)
(* Object contents.  raw says how far bytes.decode / str.strip /           *)
(* json.loads get, val is the parsed document when they succeed.           *)
(***************************************************************************)
Bytes(raw, val, len) == [raw |-> raw, val |-> val, len |-> len]

GoodArray == Bytes("json", JList(<<JDict([type |-> JStr("txn"), id |-> JInt(1)])>>), 24)
BadSyntax == Bytes("badjson", JNull, 16)
ScalarArray == Bytes("json", JList(<<JInt(1)>>), 3)

\* contents the objects of the bucket may have
Contents == {GoodArray, BadSyntax, ScalarArray}

(***************************************************************************)
(* Object keys: strings, as sequences of characters.                       *)
(***************************************************************************)
DotJson == <<".", "j", "s", "o", "n">>
DotTxt == <<".", "t", "x", "t">>
StemChars == <<"a", "b", "c", "d">>
Stems == {<<"k", StemChars[i]>> : i \in 1..MaxStems}
Keys == {s \o DotJson : s \in Stems} \cup {<<"k", "a">> \o DotTxt}
NoKey == <<>>

\* str.endswith
endswith(s, suffix) ==
    /\ Len(s) >= Len(suffix)
    /\ SubSeq(s, Len(s) - Len(suffix) + 1, Len(s)) = suffix

\* the characters of the keys in code point order
Alphabet == <<".", "a", "b", "c", "d", "j", "k", "n", "o", "s", "t", "x">>
Rank(c) == CHOOSE i \in 1..Len(Alphabet) : Alphabet[i] = c

\* the lexicographic order list_objects_v2 returns keys in
RECURSIVE KeyLess(_, _)
KeyLess(a, b) ==
    IF a = <<>> THEN b # <<>>
    ELSE IF b = <<>> THEN FALSE
    ELSE IF Head(a) = Head(b) THEN KeyLess(Tail(a), Tail(b))
    ELSE Rank(Head(a)) < Rank(Head(b))

RECURSIVE SortedKeys(_)
SortedKeys(S) ==
    IF S = {} THEN <<>>
    ELSE LET m == CHOOSE x \in S : \A y \in S \ {x} : KeyLess(x, y)
         IN <<m>> \o SortedKeys(S \ {m})

Range(s) == {s[i] : i \in 1..Len(s)}
Last(s) == IF s = <<>> THEN "" ELSE s[Len(s)]

(***************************************************************************)
(* process_json_file: the record list of a payload, or a ValueError.       *)
(* A ValueError raised inside the try block (whitespace, empty array,      *)
(* unexpected structure) is caught by the last handler and raised again    *)
(* with the prefix "Error parsing".                                        *)
(***************************************************************************)
Ok(x) == [ok |-> TRUE, val |-> x, err |-> <<>>]
Raise(kind, msg) == [ok |-> FALSE, val |-> <<>>, err |-> <<kind>> \o msg]

\* the data field is looked at before the records field
ShapeDispatchDataFirst(data) ==
    IF isinstance(data, "list")
    THEN IF Len(data.v) = 0 THEN Raise("ValueError", <<"Empty array">>)
         ELSE Ok(data.v)
    ELSE IF isinstance(data, "dict")
    THEN IF "data" \in DOMAIN data.v /\ isinstance(data.v["data"], "list")
         THEN Ok(data.v["data"].v)
         ELSE IF "records" \in DOMAIN data.v /\ isinstance(data.v["records"], "list")
         THEN Ok(data.v["records"].v)
         ELSE Ok(<<data>>)
    ELSE Raise("ValueError", <<"Unexpected JSON structure", data.t>>)

\* a records or data field is taken for the record list whatever its type
ShapeDispatchAnyField(data) ==
    IF isinstance(data, "list")
    THEN IF Len(data.v) = 0 THEN Raise("ValueError", <<"Empty array">>)
         ELSE Ok(data.v)
    ELSE IF isinstance(data, "dict")
    THEN IF "records" \in DOMAIN data.v
         THEN Ok(IF isinstance(data.v["records"], "list") THEN data.v["records"].v ELSE <<>>)
         ELSE IF "data" \in DOMAIN data.v
         THEN Ok(IF isinstance(data.v["data"], "list") THEN data.v["data"].v ELSE <<>>)
         ELSE Ok(<<data>>)
    ELSE Raise("ValueError", <<"Unexpected JSON structure", data.t>>)

\* the elements of an array that are no objects are dropped
ShapeDispatchObjectsOnly(data) ==
    IF isinstance(data, "list")
    THEN IF Len(data.v) = 0 THEN Raise("ValueError", <<"Empty array">>)
         ELSE Ok(SelectSeq(data.v, LAMBDA x : isinstance(x, "dict")))
    ELSE IF isinstance(data, "dict")
    THEN IF "records" \in DOMAIN data.v /\ isinstance(data.v["records"], "list")
         THEN Ok(data.v["records"].v)
         ELSE IF "data" \in DOMAIN data.v /\ isinstance(data.v["data"], "list")
         THEN Ok(data.v["data"].v)
         ELSE Ok(<<data>>)
    ELSE Raise("ValueError", <<"Unexpected JSON structure", data.t>>)

ShapeDispatch(data) ==
    IF isinstance(data, "list")
    THEN IF Len(data.v) = 0 THEN Raise("ValueError", <<"Empty array">>)
         ELSE Ok(data.v)
    ELSE IF isinstance(data, "dict")
    THEN IF "records" \in DOMAIN data.v /\ isinstance(data.v["records"], "list")
         THEN Ok(data.v["records"].v)
         ELSE IF "data" \in DOMAIN data.v /\ isinstance(data.v["data"], "list")
         THEN Ok(data.v["data"].v)
         ELSE Ok(<<data>>)
    ELSE Raise("ValueError", <<"Unexpected JSON structure", data.t>>)

\* the text is parsed without the test for an empty text after strip()
ProcessJsonNoBlankTest(content) ==
    IF content.raw = "empty" \/ content.len = 0
    THEN Raise("ValueError", <<"Empty file">>)
    ELSE IF content.raw = "badutf8"
    THEN Raise("ValueError", <<"Invalid UTF-8 encoding">>)
    ELSE IF content.raw \in {"ws", "badjson"}
    THEN Raise("ValueError", <<"Invalid JSON syntax">>)
    ELSE IF content.raw = "limit"
    THEN Raise("ValueError", <<"Error parsing", "RecursionError">>)
    ELSE LET r == ShapeDispatch(content.val)
         IN IF ~r.ok THEN Raise("ValueError", <<"Error parsing">> \o Tail(r.err))
            ELSE IF Len(r.val) = 0
            THEN Raise("ValueError", <<"Error parsing", "No records extracted">>)
            ELSE r

process_json_file(content) ==
    IF content.raw = "empty" \/ content.len = 0
    THEN Raise("ValueError", <<"Empty file">>)
    ELSE IF content.raw = "badutf8"
    THEN Raise("ValueError", <<"Invalid UTF-8 encoding">>)
    ELSE IF content.raw = "ws"
    THEN Raise("ValueError", <<"Error parsing", "File contains only whitespace">>)
    ELSE IF content.raw = "badjson"
    THEN Raise("ValueError", <<"Invalid JSON syntax">>)
    ELSE IF content.raw = "limit"
    THEN Raise("ValueError", <<"Error parsing", "RecursionError">>)
    ELSE LET r == ShapeDispatch(content.val)
         IN IF ~r.ok THEN Raise("ValueError", <<"Error parsing">> \o Tail(r.err))
            ELSE IF Len(r.val) = 0
            THEN Raise("ValueError", <<"Error parsing", "No records extracted">>)
            ELSE r

\* calculate_file_hash: the SHA-256 digest, a value that identifies the bytes
calculate_file_hash(content) == <<"sha256", content>>

(***************************************************************************)
(* The ledger table file_processing_log, a set of rows, and its three      *)
(* statements.  CURRENT_TIMESTAMP is the argument now.                     *)
(***************************************************************************)
NewId(tbl) == IF tbl = {} THEN 1 ELSE 1 + CHOOSE m \in {r.id : r \in tbl} : \A r \in tbl : r.id <= m

\* a plain INSERT, without the ON CONFLICT clause
ConflictNever(r, bucket, key) == FALSE

\* ON CONFLICT (s3_bucket, s3_key)
Conflict(r, bucket, key) == r.s3_bucket = bucket /\ r.s3_key = key

\* the conflict branch also resets processed_at
ConflictUpdateClears(r, size, hash) ==
    [r EXCEPT !.status = "processing", !.file_size = size, !.file_hash = hash,
              !.processed_at = 0]

\* DO UPDATE SET status = 'processing', file_size, file_hash
ConflictUpdate(r, size, hash) ==
    [r EXCEPT !.status = "processing", !.file_size = size, !.file_hash = hash]

\* INSERT INTO file_processing_log ... RETURNING id
InsertLog(tbl, bucket, key, size, hash) ==
    LET hit == {r \in tbl : Conflict(r, bucket, key)}
    IN IF hit # {}
       THEN [tbl |-> (tbl \ hit) \cup {ConflictUpdate(r, size, hash) : r \in hit},
             id |-> (CHOOSE r \in hit : TRUE).id]
       ELSE [tbl |-> tbl \cup {[id |-> NewId(tbl), s3_bucket |-> bucket, s3_key |-> key,
                                 file_size |-> size, file_hash |-> hash,
                                 status |-> "processing", error_message |-> <<>>,
                                 processed_at |-> 0]},
             id |-> NewId(tbl)]

\* error_message = COALESCE(%s, error_message)
UpdateRowKeepsMessage(r, status, error_message, now) ==
    [r EXCEPT !.status = status,
              !.processed_at = IF status = "COMPLETED" THEN now ELSE @,
              !.error_message = IF error_message = <<>> THEN @ ELSE error_message]

\* UPDATE file_processing_log SET status, processed_at, error_message WHERE id
UpdateRow(r, status, error_message, now) ==
    [r EXCEPT !.status = status,
              !.processed_at = IF status = "COMPLETED" THEN now ELSE @,
              !.error_message = error_message]

UpdateLog(tbl, file_log_id, status, error_message, now) ==
    {IF r.id = file_log_id THEN UpdateRow(r, status, error_message, now) ELSE r : r \in tbl}

\* the status filter left out
KnownStatusAny(status) == TRUE

\* status = 'COMPLETED' alone
KnownStatusCompleted(status) == status = "COMPLETED"

\* SELECT s3_key FROM file_processing_log WHERE status IN ('COMPLETED', 'processing')
KnownStatus(status) == status \in {"COMPLETED", "processing"}

get_processed_files(tbl) == {r.s3_key : r \in {x \in tbl : KnownStatus(x.status)}}

(***************************************************************************)
(* upsert_processed_data: the rows appended to processed_data, or the      *)
(* AttributeError of records[0].get on a record that is no dict.           *)
(***************************************************************************)
\* records[0].get('type', 'unknown')
RecordType(records) ==
    IF "type" \in DOMAIN records[1].v THEN records[1].v["type"] ELSE JStr("unknown")

\* json.dumps(record)
dumps(x) == [t |-> "json", v |-> x]

\* the batch is prepared and never inserted
UpsertNothing(file_log_id, records) ==
    IF Len(records) = 0 \/ isinstance(records[1], "dict") THEN Ok(<<>>)
    ELSE Raise("AttributeError", <<records[1].t, "get">>)

\* every row is tagged with the type of its own record
UpsertOwnType(file_log_id, records) ==
    IF Len(records) = 0 THEN Ok(<<>>)
    ELSE IF ~isinstance(records[1], "dict")
    THEN Raise("AttributeError", <<records[1].t, "get">>)
    ELSE Ok([i \in 1..Len(records) |->
               [file_log_id |-> file_log_id,
                record_type |-> IF isinstance(records[i], "dict")
                                THEN RecordType(SubSeq(records, i, i))
                                ELSE JStr("unknown"),
                record_data |-> dumps(records[i])]])

\* every record is asked for its type before anything is inserted
UpsertAllMappings(file_log_id, records) ==
    IF Len(records) = 0 THEN Ok(<<>>)
    ELSE IF \E i \in 1..Len(records) : ~isinstance(records[i], "dict")
    THEN LET i == CHOOSE j \in 1..Len(records) : ~isinstance(records[j], "dict")
         IN Raise("AttributeError", <<records[i].t, "get">>)
    ELSE Ok([i \in 1..Len(records) |->
               [file_log_id |-> file_log_id,
                record_type |-> RecordType(records),
                record_data |-> dumps(records[i])]])

upsert_processed_data(file_log_id, records) ==
    IF Len(records) = 0 THEN Ok(<<>>)
    ELSE IF ~isinstance(records[1], "dict")
    THEN Raise("AttributeError", <<records[1].t, "get">>)
    ELSE Ok([i \in 1..Len(records) |->
               [file_log_id |-> file_log_id, record_type |-> RecordType(records),
                record_data |-> dumps(records[i])]])

(***************************************************************************)
(* State.                                                                  *)
(***************************************************************************)
VARIABLES
    env,              \* the environment variables of the deployment
    tables,           \* the tables of the public schema
    objects,          \* the bucket: key -> content (NoObject when absent)
    ledger,           \* table file_processing_log
    processed_data,   \* table processed_data, in insertion order
    now,              \* the value the next CURRENT_TIMESTAMP returns
    pc,               \* where the process is
    processed_files,  \* watch_s3_bucket: the known keys
    new_files,        \* watch_s3_bucket: the candidates of the cycle left
    s3_key,           \* process_s3_file: its argument
    content,          \* process_s3_file: the downloaded bytes
    conn,             \* process_s3_file / main: a connection is held
    file_log_id,      \* process_s3_file: 0 is None
    records,          \* process_s3_file: the extracted records
    exc,              \* the exception caught or escaping, <<>> when none
    success,          \* the value process_s3_file returned
    done,             \* the steps of the running process_s3_file that succeeded
    events,           \* failures, kills, uploads and probes so far
    http              \* the health check thread: off, idle or the handler it runs

vars == <<env, tables, objects, ledger, processed_data, now, pc, processed_files,
          new_files, s3_key, content, conn, file_log_id, records, exc, success,
          done, events, http>>

db == <<ledger, processed_data, now>>
locals == <<s3_key, content, conn, file_log_id, records, exc, success, done>>
world == <<env, tables, objects, http>>

NoObject == Bytes("absent", JNull, 0)

required_vars == {"DB_HOST", "DB_USER", "DB_PASSWORD", "S3_BUCKET"}
required_tables == {"file_processing_log", "processed_data"}

\* S3_BUCKET = os.getenv('S3_BUCKET')
S3_BUCKET == env["S3_BUCKET"]

\* not os.getenv(var)
Unset(var) == env[var] \in {None, ""}

\* An external call may fail while the failure budget lasts.
MayFail == events < MaxEvents

MainPcs == {"main", "preflight", "verify"}
StartPcs == {"watch"}
FilePcs == {"connect", "open", "extract", "persist", "close", "fail", "ret"}
LoopPcs == {"list", "next", "sleep"} \cup FilePcs
Running == MainPcs \cup StartPcs \cup LoopPcs

ResetLocals ==
    /\ s3_key' = NoKey
    /\ content' = NoObject
    /\ conn' = FALSE
    /\ file_log_id' = 0
    /\ records' = <<>>
    /\ exc' = <<>>
    /\ success' = FALSE
    /\ done' = <<>>

Init ==
    /\ env \in [required_vars -> {None, "", "set"}]
    /\ tables \in SUBSET required_tables
    /\ objects = [k \in Keys |-> NoObject]
    /\ ledger = {}
    /\ processed_data = <<>>
    /\ now = 1
    /\ pc = "main"
    /\ processed_files = {}
    /\ new_files = <<>>
    /\ s3_key = NoKey
    /\ content = NoObject
    /\ conn = FALSE
    /\ file_log_id = 0
    /\ records = <<>>
    /\ exc = <<>>
    /\ success = FALSE
    /\ done = <<>>
    /\ events = 0
    /\ http = "off"

(***************************************************************************)
(* main                                                                    *)
(***************************************************************************)
\* missing = [var for var in required_vars if not os.getenv(var)]
MissingVars == {var \in required_vars : Unset(var)}

\* an uncaught exception ends the process
Exit(e) ==
    /\ pc' = "exit"
    /\ exc' = e
    /\ conn' = FALSE
    /\ http' = "off"
    /\ UNCHANGED <<s3_key, content, file_log_id, records, success, done>>

MainCheckEnv ==
    /\ pc = "main"
    /\ IF MissingVars # {}
       THEN Exit(<<"ValueError", "Missing required environment variables">>)
       ELSE pc' = "preflight" /\ UNCHANGED <<locals, http>>
    /\ UNCHANGED <<env, tables, objects, db, processed_files, new_files, events>>

MainConnect ==
    /\ pc = "preflight"
    /\ \/ /\ pc' = "verify"
          /\ conn' = TRUE
          /\ UNCHANGED <<s3_key, content, file_log_id, records, exc, success, done, events,
                         http>>
       \/ /\ MayFail
          /\ events' = events + 1
          /\ Exit(<<"OperationalError", "connect">>)
    /\ UNCHANGED <<env, tables, objects, db, processed_files, new_files>>

\* one required table is enough
VerifyAnyTable(existing_tables) == required_tables \cap existing_tables # {}

\* verify_database_schema with the query answering
verify_database_schema(existing_tables) == required_tables \ existing_tables = {}

\* the pre-flight check; when it passes, flask_thread.start() and
\* watch_s3_bucket()
MainVerify ==
    /\ pc = "verify"
    /\ \/ /\ IF verify_database_schema(tables)
             THEN /\ pc' = "watch"
                  /\ conn' = FALSE
                  /\ http' = "idle"
                  /\ UNCHANGED <<s3_key, content, file_log_id, records, exc, success, done>>
             ELSE Exit(<<"RuntimeError", "Database schema verification failed">>)
          /\ UNCHANGED events
       \/ /\ MayFail
          /\ events' = events + 1
          /\ Exit(<<"RuntimeError", "Database schema verification failed">>)
    /\ UNCHANGED <<env, tables, objects, db, processed_files, new_files>>

(***************************************************************************)
(* watch_s3_bucket                                                         *)
(***************************************************************************)
\* conn = get_db_connection(); processed_files = get_processed_files(conn)
WatchStart ==
    /\ pc = "watch"
    /\ \/ /\ pc' = "list"
          /\ processed_files' = get_processed_files(ledger)
          /\ UNCHANGED <<locals, events, http>>
       \/ /\ MayFail
          /\ events' = events + 1
          /\ Exit(<<"OperationalError", "connect">>)
          /\ UNCHANGED processed_files
    /\ UNCHANGED <<env, tables, objects, db, new_files>>

\* response['Contents'], in the order S3 lists the keys
Listing == SortedKeys({k \in Keys : objects[k] # NoObject})

\* the suffix test alone
IsNewIgnoresKnown(key, known) == endswith(key, DotJson)

\* obj['Key'].endswith('.json') and obj['Key'] not in processed_files
IsNew(key, known) == endswith(key, DotJson) /\ key \notin known

NewFiles(listing, known) == SelectSeq(listing, LAMBDA key : IsNew(key, known))

\* the while loop without its except clause
ListBucketUncaught ==
    /\ pc = "list"
    /\ \/ /\ Listing = <<>>
          /\ pc' = "sleep"
          /\ UNCHANGED <<new_files, events, locals, http>>
       \/ /\ Listing # <<>>
          /\ new_files' = NewFiles(Listing, processed_files)
          /\ pc' = IF new_files' = <<>> THEN "sleep" ELSE "next"
          /\ UNCHANGED <<events, locals, http>>
       \/ /\ MayFail
          /\ events' = events + 1
          /\ Exit(<<"ClientError", "list_objects_v2">>)
          /\ UNCHANGED new_files
    /\ UNCHANGED <<env, tables, objects, db, processed_files>>

\* one pass of the while loop up to the for loop
ListBucket ==
    /\ pc = "list"
    /\ \/ /\ Listing = <<>>
          /\ pc' = "sleep"
          /\ UNCHANGED <<new_files, events>>
       \/ /\ Listing # <<>>
          /\ new_files' = NewFiles(Listing, processed_files)
          /\ pc' = IF new_files' = <<>> THEN "sleep" ELSE "next"
          /\ UNCHANGED events
       \/ /\ MayFail
          /\ events' = events + 1
          /\ pc' = "sleep"
          /\ UNCHANGED new_files
    /\ UNCHANGED <<world, db, processed_files, locals>>

\* time.sleep(POLL_INTERVAL)
Sleep ==
    /\ pc = "sleep"
    /\ pc' = "list"
    /\ UNCHANGED <<world, db, processed_files, new_files, locals, events>>

(***************************************************************************)
(* process_s3_file, one action per external call.  A failing step leaves   *)
(* its exception in exc and goes to the except block (pc = "fail").        *)
(***************************************************************************)
Caught(e) ==
    /\ exc' = e
    /\ pc' = "fail"

\* the ledger entry is opened before the object is downloaded
DownloadLogsFirst ==
    /\ pc = "next"
    /\ s3_key' = Head(new_files)
    /\ ledger' = InsertLog(ledger, S3_BUCKET, Head(new_files), 0, <<>>).tbl
    /\ \/ /\ content' = objects[Head(new_files)]
          /\ done' = <<"download">>
          /\ pc' = "connect"
          /\ UNCHANGED <<exc, events>>
       \/ /\ MayFail
          /\ events' = events + 1
          /\ Caught(<<"ClientError", "get_object">>)
          /\ UNCHANGED <<content, done>>
    /\ UNCHANGED <<world, processed_data, now, processed_files, new_files, conn,
                   file_log_id, records, success>>

\* for s3_key in new_files: process_s3_file(s3_key) up to s3_client.get_object
Download ==
    /\ pc = "next"
    /\ s3_key' = Head(new_files)
    /\ \/ /\ content' = objects[Head(new_files)]
          /\ done' = <<"download">>
          /\ pc' = "connect"
          /\ UNCHANGED <<exc, events>>
       \/ /\ MayFail
          /\ events' = events + 1
          /\ Caught(<<"ClientError", "get_object">>)
          /\ UNCHANGED <<content, done>>
    /\ UNCHANGED <<world, db, processed_files, new_files, conn, file_log_id, records,
                   success>>

\* conn = get_db_connection()
Connect ==
    /\ pc = "connect"
    /\ \/ /\ conn' = TRUE
          /\ done' = Append(done, "connect")
          /\ pc' = "open"
          /\ UNCHANGED <<exc, events>>
       \/ /\ MayFail
          /\ events' = events + 1
          /\ Caught(<<"OperationalError", "connect">>)
          /\ UNCHANGED <<conn, done>>
    /\ UNCHANGED <<world, db, processed_files, new_files, s3_key, content, file_log_id,
                   records, success>>

\* file_log_id = log_file_processing_start(conn, s3_key, ...)
log_file_processing_start ==
    /\ pc = "open"
    /\ \/ LET r == InsertLog(ledger, S3_BUCKET, s3_key, content.len,
                            calculate_file_hash(content))
          IN /\ ledger' = r.tbl
             /\ file_log_id' = r.id
             /\ done' = Append(done, "open")
             /\ pc' = "extract"
             /\ UNCHANGED <<exc, events>>
       \/ /\ MayFail
          /\ events' = events + 1
          /\ Caught(<<"DatabaseError", "insert file_processing_log">>)
          /\ UNCHANGED <<ledger, file_log_id, done>>
    /\ UNCHANGED <<world, processed_data, now, processed_files, new_files, s3_key, content,
                   conn, records, success>>

\* records = process_json_file(s3_key, content)
Extract ==
    /\ pc = "extract"
    /\ LET r == process_json_file(content)
       IN IF r.ok
          THEN /\ records' = r.val
               /\ done' = Append(done, "extract")
               /\ pc' = "persist"
               /\ UNCHANGED exc
          ELSE /\ Caught(r.err)
               /\ UNCHANGED <<records, done>>
    /\ UNCHANGED <<world, db, processed_files, new_files, s3_key, content, conn,
                   file_log_id, success, events>>

\* upsert_processed_data(conn, file_log_id, records)
Persist ==
    /\ pc = "persist"
    /\ LET r == upsert_processed_data(file_log_id, records)
       IN \/ /\ r.ok
             /\ processed_data' = processed_data \o r.val
             /\ done' = Append(done, "persist")
             /\ pc' = "close"
             /\ UNCHANGED <<exc, events>>
          \/ /\ ~r.ok
             /\ Caught(r.err)
             /\ UNCHANGED <<processed_data, done, events>>
          \/ /\ r.ok
             /\ r.val # <<>>
             /\ MayFail
             /\ events' = events + 1
             /\ Caught(<<"DatabaseError", "insert processed_data">>)
             /\ UNCHANGED <<processed_data, done>>
    /\ UNCHANGED <<world, ledger, now, processed_files, new_files, s3_key, content, conn,
                   file_log_id, records, success>>

\* every path returns True
ReturnTrue(value) ==
    /\ success' = TRUE
    /\ conn' = FALSE
    /\ pc' = "ret"

\* return from process_s3_file through the finally block
Return(value) ==
    /\ success' = value
    /\ conn' = FALSE
    /\ pc' = "ret"

\* update_file_processing_status(conn, file_log_id, 'COMPLETED'); return True
CloseCompleted ==
    /\ pc = "close"
    /\ \/ /\ ledger' = UpdateLog(ledger, file_log_id, "COMPLETED", <<>>, now)
          /\ now' = now + 1
          /\ done' = Append(done, "close")
          /\ Return(TRUE)
          /\ UNCHANGED <<exc, events>>
       \/ /\ MayFail
          /\ events' = events + 1
          /\ Caught(<<"DatabaseError", "update file_processing_log">>)
          /\ UNCHANGED <<ledger, now, done, success, conn>>
    /\ UNCHANGED <<world, processed_data, processed_files, new_files, s3_key, content,
                   file_log_id, records>>

\* repr(e) instead of str(e)
repr(e) == e

\* str(e)
str(e) == Tail(e)

\* The statement that failed ran on the connection the except block uses, and
\* nothing rolls it back: the UPDATE may fail for that reason alone.
SessionBroken == exc # <<>> /\ Head(exc) = "DatabaseError"

\* if conn and file_log_id
HandlerCloses == conn /\ file_log_id # 0

\* except Exception as e: ... return False
Handler ==
    /\ pc = "fail"
    /\ \/ /\ HandlerCloses
          /\ ledger' = UpdateLog(ledger, file_log_id, "FAILED", str(exc), now)
          /\ done' = Append(done, "close_failed")
          /\ UNCHANGED events
       \/ /\ HandlerCloses
          /\ MayFail
          /\ events' = events + 1
          /\ UNCHANGED <<ledger, done>>
       \/ /\ HandlerCloses
          /\ SessionBroken
          /\ UNCHANGED <<ledger, done, events>>
       \/ /\ ~HandlerCloses
          /\ UNCHANGED <<ledger, done, events>>
    /\ Return(FALSE)
    /\ UNCHANGED <<world, processed_data, now, processed_files, new_files, s3_key, content,
                   file_log_id, records, exc>>

\* if success: processed_files.add(s3_key); time.sleep(1); the next candidate
AfterFile ==
    /\ pc = "ret"
    /\ processed_files' = IF success THEN processed_files \cup {s3_key} ELSE processed_files
    /\ new_files' = Tail(new_files)
    /\ pc' = IF Tail(new_files) = <<>> THEN "sleep" ELSE "next"
    /\ ResetLocals
    /\ UNCHANGED <<world, db, events>>

(***************************************************************************)
(* The environment: the process is killed and started again, objects are   *)
(* uploaded.                                                               *)
(***************************************************************************)
Crash ==
    /\ pc \in Running
    /\ events < MaxEvents
    /\ events' = events + 1
    /\ pc' = "down"
    /\ http' = "off"
    /\ processed_files' = {}
    /\ new_files' = <<>>
    /\ ResetLocals
    /\ UNCHANGED <<env, tables, objects, db>>

Restart ==
    /\ pc \in {"down", "exit"}
    /\ pc' = "main"
    /\ processed_files' = {}
    /\ new_files' = <<>>
    /\ ResetLocals
    /\ UNCHANGED <<world, db, events>>

\* The bucket is read by ListBucket and Download only: an upload at any other
\* moment is the same upload made right before the next of them.  An object
\* without the suffix is never downloaded: one content stands for all.
Upload ==
    /\ events < MaxEvents
    /\ pc \in {"list", "next"}
    /\ \E k \in Keys, c \in Contents :
          /\ objects[k] # c
          /\ endswith(k, DotJson) \/ c = GoodArray
          /\ objects' = [objects EXCEPT ![k] = c]
    /\ events' = events + 1
    /\ UNCHANGED <<env, tables, db, pc, processed_files, new_files, locals, http>>

(***************************************************************************)
(* The health check thread (Flask): it serves /health and /ready while the *)
(* main thread runs watch_s3_bucket.  A handler opens a connection of its  *)
(* own, asks SELECT 1 or head_bucket, and answers 200 or 503.              *)
(***************************************************************************)
\* a probe arrives and is routed to its handler
Request ==
    /\ http = "idle"
    /\ events < MaxEvents
    /\ events' = events + 1
    /\ \E route \in {"health", "ready"} : http' = route
    /\ UNCHANGED <<env, tables, objects, db, pc, processed_files, new_files, locals>>

\* the handler passes the first listed key to process_s3_file
readyIngests ==
    /\ http = "ready"
    /\ Listing # <<>>
    /\ http' = "open"
    /\ UNCHANGED <<env, tables, objects, db, pc, processed_files, new_files, locals, events>>

\* @app.route('/health')
health ==
    /\ http = "health"
    /\ http' = "idle"
    /\ UNCHANGED <<env, tables, objects, db, pc, processed_files, new_files, locals, events>>

\* @app.route('/ready')
ready ==
    /\ http = "ready"
    /\ http' = "idle"
    /\ UNCHANGED <<env, tables, objects, db, pc, processed_files, new_files, locals, events>>

Step ==
    \/ MainCheckEnv
    \/ MainConnect
    \/ MainVerify
    \/ WatchStart
    \/ ListBucket
    \/ Sleep
    \/ Download
    \/ Connect
    \/ log_file_processing_start
    \/ Extract
    \/ Persist
    \/ CloseCompleted
    \/ Handler
    \/ AfterFile

Next == Step \/ Crash \/ Restart \/ Upload \/ Request \/ health \/ ready

Spec == Init /\ [][Next]_vars

\* The process runs whenever it can take a step, and a process that ended or
\* was killed is started again.
FairSpec == Init /\ [][Next]_vars /\ WF_vars(Step) /\ WF_vars(Restart)

(***************************************************************************)
(* The ledger operations on their own, called in any order by deployments  *)
(* configured for either bucket.                                           *)
(***************************************************************************)
Buckets == {"bucket-a", "bucket-b"}
JsonKeys == {k \in Keys : endswith(k, DotJson)}

LInit ==
    /\ env = [var \in required_vars |-> IF var = "S3_BUCKET" THEN "bucket-a" ELSE "set"]
    /\ tables = required_tables
    /\ objects = [k \in Keys |-> NoObject]
    /\ ledger = {}
    /\ processed_data = <<>>
    /\ now = 1
    /\ pc = "api"
    /\ processed_files = {}
    /\ new_files = <<>>
    /\ s3_key = NoKey
    /\ content = NoObject
    /\ conn = TRUE
    /\ file_log_id = 0
    /\ records = <<>>
    /\ exc = <<>>
    /\ success = FALSE
    /\ done = <<>>
    /\ events = 0
    /\ http = "off"

\* the caller is a deployment with another S3_BUCKET
LSetBucket ==
    /\ \E b \in Buckets \ {S3_BUCKET} : env' = [env EXCEPT !["S3_BUCKET"] = b]
    /\ UNCHANGED <<tables, objects, db, pc, processed_files, new_files, locals, events,
                   http>>

\* log_file_processing_start(conn, s3_key, ...)
LOpen ==
    /\ events < MaxCalls
    /\ events' = events + 1
    /\ \E k \in JsonKeys, c \in Contents :
          LET r == InsertLog(ledger, S3_BUCKET, k, c.len, calculate_file_hash(c))
          IN /\ s3_key' = k
             /\ content' = c
             /\ ledger' = r.tbl
             /\ file_log_id' = r.id
    /\ done' = <<"open">>
    /\ UNCHANGED <<world, processed_data, now, pc, processed_files, new_files, conn,
                   records, exc, success>>

\* update_file_processing_status(conn, file_log_id, status, error_message), as
\* process_s3_file calls it; exc is the last error a caller closed an entry with
LClose ==
    /\ events < MaxCalls
    /\ events' = events + 1
    /\ \E r \in ledger :
          /\ file_log_id' = r.id
          /\ \/ /\ ledger' = UpdateLog(ledger, r.id, "COMPLETED", <<>>, now)
                /\ now' = now + 1
                /\ UNCHANGED exc
             \/ /\ \E e \in {<<"ValueError", "Empty file">>, <<"DatabaseError", "x">>} :
                      /\ exc' = e
                      /\ ledger' = UpdateLog(ledger, r.id, "FAILED", str(e), now)
                /\ now' = now
    /\ done' = <<"close">>
    /\ UNCHANGED <<world, processed_data, pc, processed_files, new_files, s3_key, content,
                   conn, records, success>>

LNext == LSetBucket \/ LOpen \/ LClose

LedgerSpec == LInit /\ [][LNext]_vars

(***************************************************************************)
(* The start of watch_s3_bucket over a ledger that deployments for either  *)
(* bucket have written: the seeding of the known keys and the listings.    *)
(***************************************************************************)
\* what the ledger holds for a (bucket, key): no entry, or one in a status
SeedStatuses == {"none", "processing", "COMPLETED", "FAILED"}

\* the entry log_file_processing_start creates for (bucket, key), closed to
\* the status by update_file_processing_status unless it is 'processing'
SeedRow(tbl, bucket, key, status) ==
    LET opened == InsertLog(tbl, bucket, key, GoodArray.len, calculate_file_hash(GoodArray))
    IN IF status = "processing" THEN opened.tbl
       ELSE UpdateLog(opened.tbl, opened.id, status,
                      IF status = "FAILED" THEN <<"Empty file">> ELSE <<>>, 1)

\* the entries of the keys of one bucket, f giving the status of each
RECURSIVE SeedRows(_, _, _, _)
SeedRows(tbl, bucket, keys, f) ==
    IF keys = <<>> THEN tbl
    ELSE LET k == Head(keys)
             next == IF f[<<bucket, k>>] = "none" THEN tbl
                     ELSE SeedRow(tbl, bucket, k, f[<<bucket, k>>])
         IN SeedRows(next, bucket, Tail(keys), f)

\* the ledgers: any status for any (bucket, key)
SeedLedgers ==
    {SeedRows(SeedRows({}, "bucket-a", SortedKeys(JsonKeys), f),
              "bucket-b", SortedKeys(JsonKeys), f) :
        f \in [Buckets \X JsonKeys -> SeedStatuses]}

SInit ==
    /\ env = [var \in required_vars |-> IF var = "S3_BUCKET" THEN "bucket-a" ELSE "set"]
    /\ tables = required_tables
    /\ objects = [k \in Keys |-> IF k \in JsonKeys THEN GoodArray ELSE NoObject]
    /\ ledger \in SeedLedgers
    /\ processed_data = <<>>
    /\ now = 2
    /\ pc = "watch"
    /\ processed_files = {}
    /\ new_files = <<>>
    /\ s3_key = NoKey
    /\ content = NoObject
    /\ conn = TRUE
    /\ file_log_id = 0
    /\ records = <<>>
    /\ exc = <<>>
    /\ success = FALSE
    /\ done = <<>>
    /\ events = 0
    /\ http = "idle"

SNext == WatchStart \/ ListBucket \/ Sleep

SeedSpec == SInit /\ [][SNext]_vars

(***************************************************************************)
(* process_json_file on its own, called once with any payload.             *)
(***************************************************************************)
\* a field that is not there
Absent == [t |-> "absent", v |-> None]

\* the JSON object with the fields of f that are there
Obj(f) == JDict([k \in {n \in DOMAIN f : f[n] # Absent} |-> f[k]])

Txn1 == JDict([id |-> JStr("txn-001")])
Txn2 == JDict([id |-> JStr("txn-002")])

\* the elements of the arrays
Elements == {Txn1, Txn2, JInt(1)}

\* the arrays of up to MaxLen elements
Arrays == UNION {[1..n -> Elements] : n \in 0..MaxLen}

\* what a records or data field may hold
FieldValues == {Absent, JStr("oops"), JNull, Txn1} \cup {JList(a) : a \in Arrays}

\* the JSON documents: objects, arrays and scalars
Documents ==
    {Obj([batch_id |-> b, records |-> r, data |-> d]) :
        b \in {Absent, JStr("b1")}, r \in FieldValues, d \in FieldValues}
    \cup {JList(a) : a \in Arrays}
    \cup {JInt(123), JStr("just a string"), JNull}

\* the byte strings process_json_file is called with
Payloads ==
    {Bytes("json", doc, 2) : doc \in Documents}
    \cup {Bytes(raw, JNull, 4) : raw \in {"badutf8", "ws", "badjson", "limit"}}
    \cup {Bytes("empty", JNull, 0)}

EInit ==
    /\ env = [var \in required_vars |-> "set"]
    /\ tables = required_tables
    /\ objects = [k \in Keys |-> NoObject]
    /\ ledger = {}
    /\ processed_data = <<>>
    /\ now = 1
    /\ pc = "extract"
    /\ processed_files = {}
    /\ new_files = <<>>
    /\ s3_key = <<"k", "a">> \o DotJson
    /\ content \in Payloads
    /\ conn = FALSE
    /\ file_log_id = 0
    /\ records = <<>>
    /\ exc = <<>>
    /\ success = FALSE
    /\ done = <<>>
    /\ events = 0
    /\ http = "off"

\* records = process_json_file(s3_key, content), returning
ExtractReturns ==
    /\ pc = "extract"
    /\ process_json_file(content).ok
    /\ records' = process_json_file(content).val
    /\ pc' = "returned"
    /\ UNCHANGED <<world, db, processed_files, new_files, s3_key, content, conn,
                   file_log_id, exc, success, done, events>>

\* process_json_file(s3_key, content), raising
ExtractRaises ==
    /\ pc = "extract"
    /\ ~process_json_file(content).ok
    /\ exc' = process_json_file(content).err
    /\ pc' = "raised"
    /\ UNCHANGED <<world, db, processed_files, new_files, s3_key, content, conn,
                   file_log_id, records, success, done, events>>

ENext == ExtractReturns \/ ExtractRaises

ExtractSpec == EInit /\ [][ENext]_vars

(***************************************************************************)
(* upsert_processed_data on its own, called once with any batch for an     *)
(* entry of the ledger.                                                    *)
(***************************************************************************)
Typed(ty) == JDict([id |-> JStr("txn-003"), type |-> JStr(ty)])

\* the records of the batches: with a type, without one, and no object
BatchElements == {Typed("payment"), Typed("refund"), Txn1, JInt(1)}

\* the batches of up to MaxLen records
Batches == UNION {[1..n -> BatchElements] : n \in 0..MaxLen}

\* the rows processed_data holds before the call
EarlierRows == {<<>>, upsert_processed_data(1, <<Txn2>>).val}

UInit ==
    /\ env = [var \in required_vars |-> "set"]
    /\ tables = required_tables
    /\ objects = [k \in Keys |-> NoObject]
    /\ ledger = InsertLog(InsertLog({}, "set", <<"k", "a">> \o DotJson, 24,
                                     calculate_file_hash(GoodArray)).tbl,
                           "set", <<"k", "b">> \o DotJson, 24,
                           calculate_file_hash(GoodArray)).tbl
    /\ processed_data \in EarlierRows
    /\ now = 1
    /\ pc = "persist"
    /\ processed_files = {}
    /\ new_files = <<>>
    /\ s3_key = NoKey
    /\ content = NoObject
    /\ conn = TRUE
    /\ file_log_id \in {r.id : r \in ledger}
    /\ records \in Batches
    /\ exc = <<>>
    /\ success = FALSE
    /\ done = <<>>
    /\ events = 0
    /\ http = "off"

UNext == Persist

UpsertSpec == UInit /\ [][UNext]_vars

(***************************************************************************)
(* process_s3_file on its own, called once for an object that holds a JSON *)
(* array, from the point where the object is downloaded and the connection *)
(* is open.                                                                *)
(***************************************************************************)
\* the objects: the arrays of up to MaxLen objects and numbers
ArrayPayloads == {Bytes("json", JList(a), 2) : a \in Arrays}

IInit ==
    /\ env = [var \in required_vars |-> "set"]
    /\ tables = required_tables
    /\ content \in ArrayPayloads
    /\ objects = [k \in Keys |-> IF k = <<"k", "a">> \o DotJson THEN content ELSE NoObject]
    /\ ledger = {}
    /\ processed_data = <<>>
    /\ now = 1
    /\ pc = "open"
    /\ processed_files = {}
    /\ new_files = <<(<<"k", "a">> \o DotJson)>>
    /\ s3_key = <<"k", "a">> \o DotJson
    /\ conn = TRUE
    /\ file_log_id = 0
    /\ records = <<>>
    /\ exc = <<>>
    /\ success = FALSE
    /\ done = <<"download", "connect">>
    /\ events = 0
    /\ http = "idle"

INext ==
    \/ log_file_processing_start
    \/ Extract
    \/ Persist
    \/ CloseCompleted
    \/ Handler

IngestSpec == IInit /\ [][INext]_vars

(***************************************************************************)
(* The schema enforcer (src/validation/schema_enforcer.py).  Strings are   *)
(* sequences of characters; a timestamp is a sequence of its parts.        *)
(***************************************************************************)
\* str.strip
RECURSIVE lstrip(_)
lstrip(s) == IF s # <<>> /\ Head(s) = " " THEN lstrip(Tail(s)) ELSE s

RECURSIVE rstrip(_)
rstrip(s) == IF s # <<>> /\ s[Len(s)] = " " THEN rstrip(SubSeq(s, 1, Len(s) - 1)) ELSE s

strip(s) == rstrip(lstrip(s))

\* str.replace(old, new)
replace(s, old, new) == [i \in 1..Len(s) |-> IF s[i] = old THEN new ELSE s[i]]

IsoDate == "2024-01-01"
IsoTime == "00:00:00"
IsoOffset == "+00:00"

\* datetime.fromisoformat parses s (it raises ValueError otherwise)
fromisoformat(s) ==
    \/ s = <<IsoDate>>
    \/ /\ Len(s) \in {3, 4}
       /\ s[1] = IsoDate
       /\ s[2] \in {"T", " "}
       /\ s[3] = IsoTime
       /\ (Len(s) = 4 => s[4] = IsoOffset)

\* validate_timestamp passes v
validate_timestamp(v) == fromisoformat(replace(v, "Z", IsoOffset))

\* validate_type and validate_version pass v: not (not v or not v.strip())
validate_nonblank(v) == v # <<>> /\ strip(v) # <<>>

\* @field_validator(name): the validator of the field passes v; id and
\* source have none
field_validator(name, v) ==
    IF name = "timestamp" THEN validate_timestamp(v)
    ELSE IF name \in {"type", "version"} THEN validate_nonblank(v)
    ELSE TRUE

\* a required field of type str: name: str = Field(...)
StrField(obj, name) ==
    IF name \notin DOMAIN obj THEN {<<name, "missing">>}
    ELSE IF obj[name].t # "str" THEN {<<name, "string_type">>}
    ELSE IF ~field_validator(name, obj[name].v) THEN {<<name, "value_error">>}
    ELSE {}

\* a field of type Dict[str, Any], Optional or required
DictField(obj, name, optional) ==
    IF name \notin DOMAIN obj THEN IF optional THEN {} ELSE {<<name, "missing">>}
    ELSE IF obj[name].t = "dict" \/ (optional /\ obj[name].t = "NoneType") THEN {}
    ELSE {<<name, "dict_type">>}

\* extra fields are ignored
ExtraIgnored(obj, fields) == {}

\* extra = 'forbid'
ExtraForbidden(obj, fields) == {<<name, "extra_forbidden">> : name \in DOMAIN obj \ fields}

RecordFields == {"id", "timestamp", "type", "data", "metadata"}
EnvelopeFields == {"version", "records", "source"}

\* the errors of AgentOutputRecord(**x)
AgentOutputRecord(x) ==
    IF x.t # "dict" THEN {<<"records", "model_type">>}
    ELSE StrField(x.v, "id")
         \cup StrField(x.v, "timestamp")
         \cup StrField(x.v, "type")
         \cup DictField(x.v, "data", FALSE)
         \cup DictField(x.v, "metadata", TRUE)
         \cup ExtraForbidden(x.v, RecordFields)

\* the validated record: type trimmed, metadata None when absent
RecordModel(x) ==
    [id |-> x.v["id"].v, timestamp |-> x.v["timestamp"].v, type |-> strip(x.v["type"].v),
     data |-> x.v["data"],
     metadata |-> IF "metadata" \in DOMAIN x.v THEN x.v["metadata"] ELSE JNull]

\* records: List[AgentOutputRecord] = Field(..., min_length=1)
RecordsField(obj) ==
    IF "records" \notin DOMAIN obj THEN {<<"records", "missing">>}
    ELSE IF obj["records"].t # "list" THEN {<<"records", "list_type">>}
    ELSE IF Len(obj["records"].v) < 1 THEN {<<"records", "too_short">>}
    ELSE UNION {AgentOutputRecord(obj["records"].v[i]) : i \in 1..Len(obj["records"].v)}

\* source: Optional[str] = Field(None)
SourceField(obj) ==
    IF "source" \notin DOMAIN obj \/ obj["source"].t \in {"str", "NoneType"} THEN {}
    ELSE {<<"source", "string_type">>}

\* the errors of AgentOutputSchema(**obj)
AgentOutputSchema(obj) ==
    StrField(obj, "version")
    \cup RecordsField(obj)
    \cup SourceField(obj)
    \cup ExtraForbidden(obj, EnvelopeFields)

\* json.loads(raw_string.strip()).  It raises JSONDecodeError on a text that
\* is no JSON, and RecursionError (a document nested deeper than the
\* interpreter's recursion limit) or ValueError (an integer literal longer
\* than the interpreter's digit limit) on a text it gives up on.
loads(text) ==
    IF text.raw = "json" THEN Ok(text.val)
    ELSE IF text.raw = "limit" THEN Raise("RecursionError", <<"maximum recursion depth exceeded">>)
    ELSE Raise("JSONDecodeError", <<"Expecting value">>)

\* validate_llm_output(raw_string): the validated records, or the exception
validate_llm_output(text) ==
    LET parsed == loads(text)
    IN IF ~parsed.ok
       THEN IF Head(parsed.err) = "JSONDecodeError"
            THEN Raise("SchemaDriftError", <<"Invalid JSON syntax in LLM output">>)
            ELSE parsed
       ELSE IF parsed.val.t # "dict"
       THEN Raise("SchemaDriftError", <<"Unexpected validation error">>)
       ELSE IF AgentOutputSchema(parsed.val.v) # {}
       THEN Raise("SchemaDriftError", <<"Schema validation failed">>)
       ELSE Ok([i \in 1..Len(parsed.val.v["records"].v) |->
                   RecordModel(parsed.val.v["records"].v[i])])

\* the strings and timestamps of the documents
S(chars) == JStr(chars)
TsZ == <<IsoDate, "T", IsoTime, "Z">>
TsOffset == <<IsoDate, "T", IsoTime, IsoOffset>>
TsNaive == <<IsoDate, "T", IsoTime>>
TsSpace == <<IsoDate, " ", IsoTime>>
TsDateOnly == <<IsoDate>>
TsZZ == <<IsoDate, "T", IsoTime, "Z", "Z">>
TsWords == <<"not-a-date">>

\* a conforming record, field by field; confidence is a field the schema
\* does not know
GoodRecord ==
    [id |-> S(<<"r", "1">>), timestamp |-> S(TsZ), type |-> S(<<"t", "x", "n">>),
     data |-> JDict([amount |-> JInt(100)]), metadata |-> Absent, confidence |-> Absent]

\* the values a field of a record takes instead
RecordOptions ==
    [id |-> {Absent, S(<<>>), JInt(7)},
     timestamp |-> {Absent, JInt(7), S(<<>>), S(TsOffset), S(TsNaive), S(TsSpace),
                    S(TsDateOnly),
                    S(TsZZ), S(TsWords)},
     type |-> {Absent, JInt(7), S(<<>>), S(<<" ">>), S(<<" ", "t", " ">>)},
     data |-> {Absent, JNull, JList(<<>>), JDict(<<>>)},
     metadata |-> {JNull, JDict([model |-> S(<<"m">>)]), S(<<"m">>)},
     confidence |-> {JInt(1)}]

\* the conforming record and the records that differ from it in one field
RecordVariants ==
    {Obj(GoodRecord)}
    \cup UNION {{Obj([GoodRecord EXCEPT ![name] = o]) : o \in RecordOptions[name]} :
                  name \in DOMAIN GoodRecord}

\* the values of the records field: sequences of up to two records, one of
\* them any variant or no object at all
RecordLists ==
    {<<>>}
    \cup {<<r>> : r \in RecordVariants \cup {JInt(1)}}
    \cup {<<Obj(GoodRecord), r>> : r \in RecordVariants \cup {JInt(1)}}
    \cup {<<r, Obj(GoodRecord)>> : r \in RecordVariants \cup {JInt(1)}}

\* the envelopes; notes is a field the schema does not know
Envelopes ==
    {Obj([version |-> v, records |-> r, source |-> src, notes |-> n]) :
        v \in {Absent, JInt(1), JNull, S(<<>>), S(<<" ">>), S(<<"1", ".", "0">>),
                S(<<" ", "1", ".", "0", " ">>)},
        r \in {Absent, JNull, S(<<"r">>)} \cup {JList(l) : l \in RecordLists},
        src \in {Absent, JNull, JInt(1), S(<<"a", "g", "e", "n", "t">>)},
        n \in {Absent, S(<<"n">>)}}

\* the strings validate_llm_output is called with
Text(raw, val) == [raw |-> raw, val |-> val]

RawStrings ==
    {Text("json", doc) : doc \in Envelopes}
    \cup {Text("json", doc) : doc \in {JList(<<>>), JList(<<Obj(GoodRecord)>>),
                                        S(<<"a">>), JInt(123), JNull}}
    \cup {Text(raw, JNull) : raw \in {"badjson", "ws", "empty", "limit"}}

DInit ==
    /\ env = [var \in required_vars |-> "set"]
    /\ tables = required_tables
    /\ objects = [k \in Keys |-> NoObject]
    /\ ledger = {}
    /\ processed_data = <<>>
    /\ now = 1
    /\ pc = "validate"
    /\ processed_files = {}
    /\ new_files = <<>>
    /\ s3_key = NoKey
    /\ content \in RawStrings
    /\ conn = FALSE
    /\ file_log_id = 0
    /\ records = <<>>
    /\ exc = <<>>
    /\ success = FALSE
    /\ done = <<>>
    /\ events = 0
    /\ http = "off"

\* validated = validate_llm_output(raw_string), returning; records holds
\* validated.records
ValidateReturns ==
    /\ pc = "validate"
    /\ validate_llm_output(content).ok
    /\ records' = validate_llm_output(content).val
    /\ pc' = "returned"
    /\ UNCHANGED <<world, db, processed_files, new_files, s3_key, content, conn,
                   file_log_id, exc, success, done, events>>

\* validate_llm_output(raw_string), raising
ValidateRaises ==
    /\ pc = "validate"
    /\ ~validate_llm_output(content).ok
    /\ exc' = validate_llm_output(content).err
    /\ pc' = "raised"
    /\ UNCHANGED <<world, db, processed_files, new_files, s3_key, content, conn,
                   file_log_id, records, success, done, events>>

DNext == ValidateReturns \/ ValidateRaises

DriftSpec == DInit /\ [][DNext]_vars

(***************************************************************************)
(* Properties.                                                             *)
(***************************************************************************)
RowsOf(tbl, bucket, key) == {r \in tbl : r.s3_bucket = bucket /\ r.s3_key = key}

LedgerUnique ==
    \A b \in Buckets \cup {"set"}, k \in Keys : Cardinality(RowsOf(ledger, b, k)) <= 1

\* what a call of log_file_processing_start for a key with an entry does
ReopenPost ==
    \A r \in RowsOf(ledger, S3_BUCKET, s3_key') :
        /\ Cardinality(ledger') = Cardinality(ledger)
        /\ file_log_id' = r.id
        /\ \E q \in RowsOf(ledger', S3_BUCKET, s3_key') :
              q.id = r.id /\ q.status = "processing"

\* C1: the ledger never holds two entries with the same (bucket, key), and
\* log_file_processing_start for a key that has an entry, in whatever status,
\* adds no entry, returns the id of that entry and leaves it in 'processing'.
C1_UpsertKeepsOneEntry ==
    /\ []LedgerUnique
    /\ [][LOpen => ReopenPost]_vars

\* an entry that was COMPLETED has been opened again
C1_Witness ==
    /\ done = <<"open">>
    /\ \E r \in ledger : r.id = file_log_id /\ r.processed_at # 0 /\ r.status = "processing"

\* the ledger entry process_s3_file opened
Entry == {r \in ledger : r.id = file_log_id}

AllSteps == <<"download", "connect", "open", "extract", "persist", "close">>

IsPrefix(a, b) == Len(a) <= Len(b) /\ SubSeq(b, 1, Len(a)) = a

\* C2: process_s3_file never raises past its boundary (no step inside it ends
\* the process), it returns a boolean, and it returns True only when download,
\* connect, ledger open, extraction, persistence and the close to COMPLETED all
\* succeeded, so that on a True return the entry of the key is COMPLETED.
C2_ReturnsBoolean ==
    /\ [][(pc \in FilePcs \cup {"next"}) => (pc' \in LoopPcs \cup {"down"})]_vars
    /\ [](pc = "ret" =>
            /\ success \in BOOLEAN
            /\ success <=> (done = AllSteps)
            /\ success => /\ Entry # {}
                          /\ \A r \in Entry : /\ r.status = "COMPLETED"
                                              /\ r.s3_bucket = S3_BUCKET
                                              /\ r.s3_key = s3_key)

\* process_s3_file returned True
C2_Witness ==
    /\ pc = "ret"
    /\ success
    /\ \E r \in Entry : r.status = "COMPLETED"

\* C3: when a step fails after log_file_processing_start returned an id, the
\* except block attempts the close to FAILED; if that close succeeds the entry
\* is FAILED with the message of the original error; the function returns
\* False whether the close succeeds or not.
C3_FailureClosesFailed ==
    /\ (pc = "fail" /\ file_log_id # 0) => HandlerCloses
    /\ (pc = "ret" /\ file_log_id # 0 /\ exc # <<>>) =>
          /\ ~success
          /\ Last(done) = "close_failed" =>
                /\ Entry # {}
                /\ \A r \in Entry : r.status = "FAILED" /\ r.error_message = Tail(exc)

\* extraction failed and the entry was closed to FAILED with its message
C3_Witness ==
    /\ pc = "ret"
    /\ exc = <<"ValueError", "Invalid JSON syntax">>
    /\ Last(done) = "close_failed"
    /\ \E r \in Entry : r.status = "FAILED" /\ r.error_message = <<"Invalid JSON syntax">>

\* persistence failed on the first record and the entry was closed to FAILED
C3_WitnessPersist ==
    /\ pc = "ret"
    /\ exc = <<"AttributeError", "int", "get">>
    /\ \E r \in Entry : r.status = "FAILED"

\* the close to FAILED failed too
C3_WitnessCloseFails ==
    /\ pc = "ret"
    /\ file_log_id # 0
    /\ exc # <<>>
    /\ Last(done) # "close_failed"
    /\ \E r \in Entry : r.status = "processing"

\* C4: a failed download returns False and leaves file_processing_log and
\* processed_data as they were, with no entry created or changed and no
\* record appended.
C4_DownloadFailureNoTrace ==
    [][((pc = "next" /\ pc' = "fail") \/ (pc = "fail" /\ done = <<>>)) =>
          /\ ledger' = ledger
          /\ processed_data' = processed_data
          /\ now' = now
          /\ pc' = "ret" => ~success']_vars

\* a download failed for a key that has an entry
C4_Witness ==
    /\ pc = "ret"
    /\ exc = <<"ClientError", "get_object">>
    /\ ~success
    /\ RowsOf(ledger, S3_BUCKET, s3_key) # {}

\* the rows upsert_processed_data appends for the extracted records
BatchPersisted ==
    \A i \in 1..Len(records) :
        \E j \in 1..Len(processed_data) :
            /\ processed_data[j].file_log_id = file_log_id
            /\ processed_data[j].record_data = [t |-> "json", v |-> records[i]]

\* C5: an ingestion runs open, extract, persist, close in this order, and its
\* entry is COMPLETED only once the batch it extracted is in processed_data.
C5_CompletedAfterPersist ==
    pc \in FilePcs =>
        /\ IsPrefix(SelectSeq(done, LAMBDA x : x # "close_failed"), AllSteps)
        /\ \A r \in Entry : r.status = "COMPLETED" =>
              /\ done = AllSteps
              /\ records # <<>>
              /\ BatchPersisted

\* the entry of the running ingestion is COMPLETED
C5_Witness ==
    /\ pc = "ret"
    /\ records # <<>>
    /\ \E r \in Entry : r.status = "COMPLETED"

\* the keys of the entries in status FAILED
FailedKeys == {r.s3_key : r \in {x \in ledger : x.status = "FAILED"}}

\* the step of ListBucket in which list_objects_v2 answered with objects
Listed == pc = "list" /\ events' = events /\ pc' \in {"next", "sleep"} /\ Listing # <<>>

\* C6: a key whose entry is FAILED is not in the known-keys set, neither as
\* seeded by get_processed_files nor later, and every listing that finds it
\* with the .json suffix makes it a candidate again.
C6_FailedIsRetried ==
    /\ [](pc \in LoopPcs => FailedKeys \cap processed_files = {})
    /\ [][Listed =>
            \A k \in FailedKeys :
                (objects[k] # NoObject /\ endswith(k, DotJson)) =>
                    k \in Range(new_files')]_vars

\* after a restart (a known key is still 'processing') a FAILED key is the
\* next candidate
C6_Witness ==
    /\ pc = "next"
    /\ Head(new_files) \in FailedKeys
    /\ \E r \in ledger : r.status = "processing" /\ r.s3_key \in processed_files

\* the candidates of a cycle: the listed keys with the suffix that are not known
Candidates == {k \in Keys : objects[k] # NoObject /\ endswith(k, DotJson)
                            /\ k \notin processed_files}

\* C8: the candidates of a cycle are the listed .json keys that are not known,
\* each once; process_s3_file is called for the first candidate left only; a
\* key enters the known-keys set exactly when its ingestion returned True, and
\* no key leaves the set while the process lives; so no known key is ingested.
C8_OnlyNewKeysOncePerCycle ==
    /\ [][Listed => /\ Range(new_files') = Candidates
                    /\ Len(new_files') = Cardinality(Candidates)]_vars
    /\ [][(s3_key' # s3_key /\ s3_key' # NoKey) =>
            (pc = "next" /\ s3_key' = Head(new_files))]_vars
    /\ [][(pc = "ret" /\ pc' \in LoopPcs \ {"ret"}) =>
            /\ processed_files' = IF success THEN processed_files \cup {s3_key}
                                  ELSE processed_files
            /\ new_files' = Tail(new_files)]_vars
    /\ [][((pc \in LoopPcs /\ pc # "ret" /\ pc' \in LoopPcs) \/ pc' = pc) =>
            processed_files' = processed_files]_vars
    /\ [](pc \in FilePcs \cup {"next"} =>
            /\ new_files # <<>>
            /\ pc \in FilePcs => s3_key = Head(new_files)
            /\ Range(new_files) \cap processed_files = {})

\* a known key whose content was replaced went through a listing and was not
\* made a candidate
C8_Witness ==
    /\ pc = "sleep"
    /\ \E r \in ledger :
          /\ r.s3_key \in processed_files
          /\ r.status = "COMPLETED"
          /\ r.file_hash # calculate_file_hash(objects[r.s3_key])

ConfigOK == MissingVars = {} /\ required_tables \subseteq tables

\* C10: watch_s3_bucket is entered only from a pre-flight check that passed,
\* with every required setting present and both tables found; otherwise main
\* ends with an error, and no listing or ingestion takes place.
C10_StartupGate ==
    /\ [](pc \in StartPcs \cup LoopPcs => ConfigOK)
    /\ [][(pc' \in StartPcs \cup LoopPcs /\ pc \notin StartPcs \cup LoopPcs) =>
            (pc = "verify" /\ conn)]_vars
    /\ [][(pc \in MainPcs /\ ~ConfigOK) => pc' \in MainPcs \cup {"exit", "down"}]_vars
    /\ [](pc = "exit" => exc # <<>>)

\* main ended on a missing table
C10_Witness ==
    /\ pc = "exit"
    /\ MissingVars = {}
    /\ ~(required_tables \subseteq tables)
    /\ exc = <<"RuntimeError", "Database schema verification failed">>

\* the poll loop runs
C10_WitnessLoop == pc = "list" /\ ConfigOK

\* the object of key k is there and process_s3_file can ingest its content
Ingestible(k) ==
    /\ objects[k] # NoObject
    /\ process_json_file(objects[k]).ok
    /\ upsert_processed_data(1, process_json_file(objects[k]).val).ok

\* the entry of key k is COMPLETED and has records in processed_data
Completed(k) ==
    \E r \in RowsOf(ledger, S3_BUCKET, k) :
        /\ r.status = "COMPLETED"
        /\ \E j \in 1..Len(processed_data) : processed_data[j].file_log_id = r.id

\* the entry of key k is 'processing' and the poll loop holds k as known
SeededProcessing(k) ==
    /\ k \in processed_files
    /\ \E r \in RowsOf(ledger, S3_BUCKET, k) : r.status = "processing"

\* C7 as claimed: with a valid configuration, every .json key that stays listed
\* with content that can be ingested has its entry COMPLETED in the end, the
\* process being killed and started again any number of times.
C7_AtLeastOnce ==
    \A k \in JsonKeys : (ConfigOK /\ <>[]Ingestible(k)) => <>Completed(k)

\* C7 as amended: ... or the key is known to the poll loop with its entry
\* left in 'processing', after which it is not ingested again.
C7_AtLeastOnceUnlessSeededProcessing ==
    \A k \in JsonKeys :
        (ConfigOK /\ <>[]Ingestible(k)) => <>(Completed(k) \/ SeededProcessing(k))

\* a key is ingested to COMPLETED by a process that was started again: another
\* key, left in 'processing', was seeded as known
C7_Witness ==
    /\ pc = "ret"
    /\ success
    /\ Completed(s3_key)
    /\ \E r \in ledger : r.status = "processing" /\ r.s3_key \in processed_files

\* C9: no step of the poll loop ends the process; after a failed ingestion
\* the loop goes on with the remaining candidates of the cycle; from every
\* state of the loop a listing is reached again and attempted, unless the
\* process is killed.
C9_LoopNeverEnds ==
    /\ [][(pc \in LoopPcs) => (pc' \in LoopPcs \cup {"down"})]_vars
    /\ [][(pc = "ret" /\ ~success /\ pc' \in LoopPcs \ {"ret"}) =>
            /\ new_files' = Tail(new_files)
            /\ pc' = IF Tail(new_files) = <<>> THEN "sleep" ELSE "next"]_vars
    /\ (pc \in LoopPcs) ~> (pc \in {"list", "down"})
    /\ (pc = "list") ~> (pc \in {"next", "sleep", "down"})

\* after the ingestion of a key failed, a later candidate of the same cycle is
\* about to be ingested
C9_Witness ==
    /\ pc = "next"
    /\ \E k \in FailedKeys : k \notin Range(new_files) /\ KeyLess(k, Head(new_files))

\* a failed listing was followed by the sleep
C9_WitnessListingFailed == pc = "sleep" /\ events > 0 /\ Listing = <<>> /\ ledger = {}

(***************************************************************************)
(* The ledger entry: processed_at and error_message.                       *)
(***************************************************************************)
\* the entry ledger' holds under the id of r
After(r) == {q \in ledger' : q.id = r.id}

\* the step is a close of entry r to the given status
ClosesTo(r, status) ==
    /\ LClose
    /\ file_log_id' = r.id
    /\ \A q \in After(r) : q.status = status

\* C11: processed_at is null in a new entry, is set by every close to
\* COMPLETED, is changed by no other call (a re-open and a close to FAILED
\* leave it as it is) and is never null again once set; so an entry has a
\* processed_at exactly when it was closed to COMPLETED at some time.
C11_ProcessedAtOnlyByCompleted ==
    /\ [](\A r \in ledger : r.status = "COMPLETED" => r.processed_at # 0)
    /\ [][\A q \in ledger' : (\A r \in ledger : r.id # q.id) => q.processed_at = 0]_vars
    /\ [][\A r \in ledger : \A q \in After(r) :
              /\ ClosesTo(r, "COMPLETED") => (q.processed_at = now /\ now # 0)
              /\ ~ClosesTo(r, "COMPLETED") => q.processed_at = r.processed_at
              /\ r.processed_at # 0 => q.processed_at # 0]_vars

\* an entry that was closed to COMPLETED has been closed to FAILED and keeps
\* its processed_at
C11_Witness ==
    /\ done = <<"close">>
    /\ \E r \in ledger : r.id = file_log_id /\ r.status = "FAILED" /\ r.processed_at # 0

\* C12 as claimed: an entry with an error message is in status FAILED.
C12_ErrorOnlyWhenFailed ==
    \A r \in ledger : r.error_message # <<>> => r.status = "FAILED"

\* C13: a close stores the message it is given whatever the entry held: after
\* a close to COMPLETED the error message is null, after a close to FAILED it
\* is the message of the error the close was called with.
C13_CloseOverwritesMessage ==
    [][\A r \in ledger : \A q \in After(r) :
          /\ ClosesTo(r, "COMPLETED") => q.error_message = <<>>
          /\ ClosesTo(r, "FAILED") => q.error_message = str(exc')]_vars

\* the one entry of the ledger was closed to FAILED with an error and later
\* closed to COMPLETED: its message is gone
C13_Witness ==
    /\ Cardinality(ledger) = 1
    /\ done = <<"close">>
    /\ exc # <<>>
    /\ \A r \in ledger : r.status = "COMPLETED" /\ r.error_message = <<>>

(***************************************************************************)
(* Threads.                                                                *)
(***************************************************************************)
\* the invocations of process_s3_file between their start and their return
Invocations ==
    (IF pc \in FilePcs THEN 1 ELSE 0) + (IF http \in FilePcs THEN 1 ELSE 0)

\* C14: at most one invocation of process_s3_file is running at any moment,
\* the health check thread never runs one and never writes the ledger; an
\* invocation starts only after the one before it returned, and it opens its
\* entry while it holds no other.
C14_OneIngestionAtATime ==
    /\ [](Invocations <= 1)
    /\ [](http \in {"off", "idle", "health", "ready"})
    /\ [][(pc \notin FilePcs /\ pc' \in FilePcs) =>
            (pc = "next" /\ s3_key = NoKey /\ file_log_id = 0 /\ ~conn /\ done = <<>>)]_vars
    /\ [][(ledger' # ledger \/ processed_data' # processed_data) =>
            (pc \in {"open", "persist", "close", "fail"} /\ http' = http)]_vars
    /\ [][(pc = "open" /\ pc' = "extract") => file_log_id = 0]_vars

\* a readiness probe is being served while an ingestion holds an open entry
C14_Witness ==
    /\ pc = "persist"
    /\ http = "ready"
    /\ \E r \in Entry : r.status = "processing"

(***************************************************************************)
(* The record extractor.                                                   *)
(***************************************************************************)
\* process_json_file was called with a payload that json.loads decodes
Decoded == pc \in {"returned", "raised"} /\ content.raw = "json"

\* field name of object d holds a sequence
HasSeq(d, name) == name \in DOMAIN d.v /\ d.v[name].t = "list"

\* the sequence the claim names: records before data
Nested(d) == IF HasSeq(d, "records") THEN d.v["records"].v ELSE d.v["data"].v

\* C18 as claimed: for an object with a records or a data field that holds a
\* sequence, process_json_file returns that sequence, the records one when both
\* are sequences.
C18_NestedReturned ==
    (Decoded /\ content.val.t = "dict"
        /\ (HasSeq(content.val, "records") \/ HasSeq(content.val, "data"))) =>
        (pc = "returned" /\ records = Nested(content.val))

\* C18 as amended: ... returns that sequence when it is not empty; when it is
\* empty the call raises ValueError (no records extracted), also if the other
\* field holds a sequence with elements; the object is never returned wrapped.
C18_NestedReturnedUnlessEmpty ==
    (Decoded /\ content.val.t = "dict"
        /\ (HasSeq(content.val, "records") \/ HasSeq(content.val, "data"))) =>
        IF Nested(content.val) # <<>>
        THEN pc = "returned" /\ records = Nested(content.val) /\ records # <<content.val>>
        ELSE pc = "raised" /\ exc = <<"ValueError", "Error parsing", "No records extracted">>

\* both fields hold sequences with elements: the records one was returned
C18_Witness ==
    /\ pc = "returned"
    /\ content.val.t = "dict"
    /\ HasSeq(content.val, "records") /\ HasSeq(content.val, "data")
    /\ content.val.v["data"].v # <<>>
    /\ content.val.v["data"].v # content.val.v["records"].v
    /\ Len(records) = 2
    /\ records = content.val.v["records"].v

\* an empty records sequence, a data sequence with elements: the call raised
C18_WitnessEmpty ==
    /\ pc = "raised"
    /\ content.val.t = "dict"
    /\ HasSeq(content.val, "records") /\ content.val.v["records"].v = <<>>
    /\ HasSeq(content.val, "data") /\ content.val.v["data"].v # <<>>

\* C19: for an object with neither a records nor a data field that holds a
\* sequence (the empty object, a records or data field of another type),
\* process_json_file returns the one-element sequence of that object.
C19_ObjectWrapped ==
    (Decoded /\ content.val.t = "dict"
        /\ ~HasSeq(content.val, "records") /\ ~HasSeq(content.val, "data")) =>
        (pc = "returned" /\ Len(records) = 1 /\ records[1] = content.val)

\* the object with a records field that is a string came back whole
C19_Witness ==
    /\ pc = "returned"
    /\ content.val.t = "dict"
    /\ DOMAIN content.val.v = {"batch_id", "records"}
    /\ content.val.v["records"] = JStr("oops")
    /\ records = <<content.val>>

\* the empty object came back as one record
C19_WitnessEmptyObject ==
    /\ pc = "returned"
    /\ content.val.t = "dict"
    /\ DOMAIN content.val.v = {}
    /\ Len(records) = 1

\* C20: for an array with elements process_json_file returns a sequence of
\* the same length with the same elements at the same places.
C20_ArrayVerbatim ==
    (Decoded /\ content.val.t = "list" /\ Len(content.val.v) > 0) =>
        /\ pc = "returned"
        /\ Len(records) = Len(content.val.v)
        /\ \A i \in 1..Len(records) : records[i] = content.val.v[i]

\* an array of an object and a number, in this order, came back as it was
C20_Witness ==
    /\ pc = "returned"
    /\ content.val.t = "list"
    /\ Len(content.val.v) = 2
    /\ content.val.v[1] = Txn2 /\ content.val.v[2] = JInt(1)
    /\ records = <<Txn2, JInt(1)>>

\* the phrases by which the messages of process_json_file name a cause
Causes ==
    {"Empty file", "Invalid UTF-8 encoding", "File contains only whitespace",
     "Invalid JSON syntax", "Empty array", "Unexpected JSON structure"}

\* the cause a payload fails for, "" when it has none of them
CauseOf(c) ==
    IF c.raw = "empty" THEN "Empty file"
    ELSE IF c.raw = "badutf8" THEN "Invalid UTF-8 encoding"
    ELSE IF c.raw = "ws" THEN "File contains only whitespace"
    ELSE IF c.raw = "badjson" THEN "Invalid JSON syntax"
    ELSE IF c.raw = "json" /\ c.val.t = "list" /\ c.val.v = <<>> THEN "Empty array"
    ELSE IF c.raw = "json" /\ c.val.t \notin {"list", "dict"} THEN "Unexpected JSON structure"
    ELSE ""

\* C21: empty bytes, bytes that are no UTF-8, a text of white space, a text
\* that is no JSON, an empty array and a scalar or null document each make
\* process_json_file raise ValueError with the phrase of that cause in the
\* message and the phrase of no other cause; for a scalar or null the message
\* ends with the name of its type.
C21_DistinctCauses ==
    pc \in {"returned", "raised"} =>
        /\ CauseOf(content) # "" => pc = "raised"
        /\ pc = "raised" =>
              /\ Head(exc) = "ValueError"
              /\ Range(Tail(exc)) \cap Causes = {CauseOf(content)} \ {""}
        /\ CauseOf(content) = "Unexpected JSON structure" => Last(exc) = content.val.t

\* a text of white space raised with its own phrase, under the prefix of the
\* last except clause
C21_Witness ==
    /\ pc = "raised"
    /\ content.raw = "ws"
    /\ exc = <<"ValueError", "Error parsing", "File contains only whitespace">>

\* the null document raised with the name of its type
C21_WitnessNull ==
    /\ pc = "raised"
    /\ content.raw = "json" /\ content.val = JNull
    /\ exc = <<"ValueError", "Error parsing", "Unexpected JSON structure", "NoneType">>

(***************************************************************************)
(* An entry left in 'processing'.                                          *)
(***************************************************************************)
\* the entry of key k is 'processing'
EntryProcessing(k) == \E r \in RowsOf(ledger, S3_BUCKET, k) : r.status = "processing"

\* the entry of key k is 'processing' and no ingestion of k is under way: the
\* poll loop does not run, or it runs with k known and another key, or none,
\* in process_s3_file
Stranded(k) ==
    /\ EntryProcessing(k)
    /\ s3_key # k
    /\ pc \in LoopPcs => k \in processed_files

\* C23: the end of the process changes no entry, so an entry that is
\* 'processing' when the process stops stays so; a poll loop that starts
\* seeds the key of every 'processing' entry as known; and from then on, the
\* process being killed and started again any number of times and the object
\* replaced or not, the key is never passed to process_s3_file and its entry
\* stays 'processing'.
C23_ProcessingIsPermanent ==
    /\ [][pc' \in {"down", "exit"} => ledger' = ledger]_vars
    /\ [][(pc = "watch" /\ pc' = "list") =>
            \A k \in Keys : EntryProcessing(k) => k \in processed_files']_vars
    /\ [][\A k \in Keys : (Stranded(k) /\ pc \notin LoopPcs) => Stranded(k)']_vars
    /\ [][\A k \in Keys : (Stranded(k) /\ pc \in LoopPcs) => Stranded(k)']_vars

\* a poll loop started after the process was killed went through a listing
\* that held the key of a 'processing' entry, its object being one that can
\* be ingested, and sleeps with nothing ingested
C23_Witness ==
    /\ pc = "sleep"
    /\ events > 0
    /\ \E k \in JsonKeys : Stranded(k) /\ Ingestible(k)
    /\ \A r \in ledger : r.status = "processing"

(***************************************************************************)
(* Persisting a batch.                                                     *)
(***************************************************************************)
\* the rows the step appended to processed_data
Appended == SubSeq(processed_data', Len(processed_data) + 1, Len(processed_data'))

\* the step is a call of upsert_processed_data that returned
Upserted == pc = "persist" /\ pc' = "close"

\* the type of the first record of a batch of objects, 'unknown' without one
FirstType(batch) ==
    IF "type" \in DOMAIN batch[1].v THEN batch[1].v["type"] ELSE JStr("unknown")

\* C22: a call of upsert_processed_data with a batch whose first record is an
\* object either appends, behind the rows that are there, one row per record
\* in the order of the batch, each with the given file_log_id, the record as
\* its data and the type of the first record (or 'unknown') as record_type, or
\* fails and appends none; a call with the empty batch appends nothing, runs
\* no statement and cannot fail.
C22_OneRowPerRecord ==
    /\ [][Upserted =>
            /\ Len(processed_data') = Len(processed_data) + Len(records)
            /\ SubSeq(processed_data', 1, Len(processed_data)) = processed_data
            /\ \A i \in 1..Len(records) :
                  /\ Appended[i].file_log_id = file_log_id
                  /\ Appended[i].record_type = FirstType(records)
                  /\ Appended[i].record_data = dumps(records[i])]_vars
    /\ [][(pc = "persist" /\ ~Upserted) => processed_data' = processed_data]_vars
    /\ [][(pc = "persist" /\ records = <<>>) => (Upserted /\ events' = events)]_vars
    /\ [][(pc = "persist" /\ records # <<>> /\ records[1].t = "dict" /\ events' = events)
            => Upserted]_vars

\* behind an earlier row, a record without a type and a record with one were
\* appended, both as 'unknown'
C22_Witness ==
    /\ pc = "close"
    /\ Len(records) = 2
    /\ "type" \notin DOMAIN records[1].v
    /\ records[2] = Typed("refund")
    /\ Len(processed_data) = 3
    /\ \A i \in 2..3 : /\ processed_data[i].record_type = JStr("unknown")
                        /\ processed_data[i].file_log_id = file_log_id

\* the call with the empty batch returned and the table has its earlier row
C22_WitnessEmpty ==
    /\ pc = "close"
    /\ records = <<>>
    /\ Len(processed_data) = 1

\* C24: process_s3_file reaches upsert_processed_data with its entry opened
\* and 'processing'.  When the first extracted record is not an object the
\* call raises AttributeError with no statement run and nothing appended;
\* the handler appends nothing, returns False and, unless its UPDATE fails,
\* leaves the entry FAILED with the message of the AttributeError.  When the
\* first record is an object, a call that returns has appended every record
\* of the batch, the records that are not objects too.
C24_FirstRecordDecides ==
    /\ [](pc = "persist" =>
            /\ records # <<>>
            /\ Entry # {}
            /\ \A r \in Entry : r.status = "processing")
    /\ [][(pc = "persist" /\ records[1].t # "dict") =>
            /\ pc' = "fail"
            /\ exc' = <<"AttributeError", records[1].t, "get">>
            /\ events' = events
            /\ processed_data' = processed_data]_vars
    /\ [][(pc = "fail" /\ Head(exc) = "AttributeError") =>
            /\ pc' = "ret"
            /\ ~success'
            /\ processed_data' = processed_data
            /\ events' = events =>
                  \A r \in Entry : UpdateRow(r, "FAILED", str(exc), now) \in ledger']_vars
    /\ [][(pc = "persist" /\ records[1].t = "dict") =>
            \/ /\ pc' = "close"
               /\ Len(Appended) = Len(records)
               /\ \A i \in 1..Len(records) :
                     /\ Appended[i].file_log_id = file_log_id
                     /\ Appended[i].record_data = dumps(records[i])
            \/ /\ pc' = "fail"
               /\ events' # events
               /\ processed_data' = processed_data]_vars

\* the batch [1, {...}] left the entry FAILED, nothing persisted, False returned
C24_Witness ==
    /\ pc = "ret"
    /\ ~success
    /\ records = <<JInt(1), Txn1>>
    /\ processed_data = <<>>
    /\ \E r \in Entry : r.status = "FAILED" /\ r.error_message = <<"int", "get">>

\* the batch [{...}, 1] is persisted in full and the entry COMPLETED
C24_WitnessLaterElement ==
    /\ pc = "ret"
    /\ success
    /\ records = <<Txn1, JInt(1)>>
    /\ Len(processed_data) = 2
    /\ processed_data[2].record_data = dumps(JInt(1))
    /\ \E r \in Entry : r.status = "COMPLETED"

\* the rows of processed_data under an entry id, in the order of insertion
RowsUnder(id) == SelectSeq(processed_data, LAMBDA row : row.file_log_id = id)

\* the rows one ingestion of the object an entry describes persists: the
\* entry's hash stands for the bytes that were hashed
BatchOf(r) == upsert_processed_data(r.id, process_json_file(r.file_hash[2]).val).val

\* C25: for every entry in status COMPLETED, the rows of processed_data
\* under the entry's id are the rows of one ingestion of its object, once.
C25_OneBatchPerCompleted ==
    \A r \in ledger : r.status = "COMPLETED" => RowsUnder(r.id) = BatchOf(r)

\* C26: a key the poll loop holds as known from its start has an entry under
\* the configured bucket in status 'processing' or COMPLETED.
C26_SeedScopedToBucket ==
    pc \in LoopPcs =>
        \A k \in processed_files :
            \E r \in RowsOf(ledger, S3_BUCKET, k) : KnownStatus(r.status)

(***************************************************************************)
(* The drift guard.                                                        *)
(***************************************************************************)
\* validate_llm_output was called and is over
Validated == pc \in {"returned", "raised"}

\* the call raised SchemaDriftError and returned nothing
Drift == pc = "raised" /\ Head(exc) = "SchemaDriftError" /\ records = <<>>

\* C15 as claimed: a call of validate_llm_output returns or raises
\* SchemaDriftError, for every input string; a text that is no JSON, a JSON
\* value that is no object and an object without version raise it.
C15_OnlySchemaDriftError ==
    Validated =>
        /\ pc = "raised" => Head(exc) = "SchemaDriftError"
        /\ (content.raw # "json" \/ content.val.t # "dict"
              \/ "version" \notin DOMAIN content.val.v) => Drift

\* a string has a character that is no white space
NonBlank(x) == x.t = "str" /\ \E i \in 1..Len(x.v) : x.v[i] # " "

\* a string is empty after trimming
Blank(x) == x.t = "str" /\ \A i \in 1..Len(x.v) : x.v[i] = " "

\* ISO-8601 date-times, and strings that are none
ValidTimestamps == {TsZ, TsOffset, TsNaive}
MalformedTimestamps == {<<>>, TsZZ, TsWords}

\* a record with exactly {id, timestamp, type, data, metadata?}, well typed
ConformingRecord(x) ==
    /\ x.t = "dict"
    /\ {"id", "timestamp", "type", "data"} \subseteq DOMAIN x.v
    /\ DOMAIN x.v \subseteq RecordFields
    /\ x.v["id"].t = "str"
    /\ x.v["timestamp"].t = "str" /\ x.v["timestamp"].v \in ValidTimestamps
    /\ NonBlank(x.v["type"])
    /\ x.v["data"].t = "dict"
    /\ "metadata" \in DOMAIN x.v => x.v["metadata"].t \in {"dict", "NoneType"}

\* an envelope with exactly {version, records, source?}, well typed
ConformingEnvelope(d) ==
    /\ d.t = "dict"
    /\ {"version", "records"} \subseteq DOMAIN d.v
    /\ DOMAIN d.v \subseteq EnvelopeFields
    /\ NonBlank(d.v["version"])
    /\ d.v["records"].t = "list"
    /\ Len(d.v["records"].v) >= 1
    /\ \A i \in 1..Len(d.v["records"].v) : ConformingRecord(d.v["records"].v[i])
    /\ "source" \in DOMAIN d.v => d.v["source"].t \in {"str", "NoneType"}

\* a record with one of the defects of the claim
DefectiveRecord(x) ==
    /\ x.t = "dict"
    /\ \/ DOMAIN x.v \ RecordFields # {}
       \/ {"id", "timestamp", "type", "data"} \ DOMAIN x.v # {}
       \/ "timestamp" \in DOMAIN x.v /\ x.v["timestamp"].t = "str"
             /\ x.v["timestamp"].v \in MalformedTimestamps
       \/ "type" \in DOMAIN x.v /\ Blank(x.v["type"])

\* an envelope with one of the defects of the claim, in it or in a record
DefectiveEnvelope(d) ==
    /\ d.t = "dict"
    /\ \/ DOMAIN d.v \ EnvelopeFields # {}
       \/ {"version", "records"} \ DOMAIN d.v # {}
       \/ "version" \in DOMAIN d.v /\ Blank(d.v["version"])
       \/ /\ "records" \in DOMAIN d.v
          /\ d.v["records"].t = "list"
          /\ \/ d.v["records"].v = <<>>
             \/ \E i \in 1..Len(d.v["records"].v) : DefectiveRecord(d.v["records"].v[i])

\* C16: an envelope with exactly the fields {version, records, source?} whose
\* records have exactly {id, timestamp, type, data, metadata?} and an ISO-8601
\* timestamp is returned validated, record for record; an envelope that has,
\* in itself or in any one record, an unknown field, a required field
\* missing, a malformed timestamp, a blank version or type, or no record,
\* raises SchemaDriftError and nothing of it is returned.
C16_ExactEnvelope ==
    (Validated /\ content.raw = "json") =>
        /\ ConformingEnvelope(content.val) =>
              /\ pc = "returned"
              /\ Len(records) = Len(content.val.v["records"].v)
              /\ \A i \in 1..Len(records) :
                    records[i].id = content.val.v["records"].v[i].v["id"].v
        /\ DefectiveEnvelope(content.val) => Drift

\* an envelope with a source and two records, one with metadata, was returned
C16_Witness ==
    /\ pc = "returned"
    /\ DOMAIN content.val.v = EnvelopeFields
    /\ Len(records) = 2
    /\ \E i \in 1..2 : records[i].metadata.t = "dict"

\* the second record of an envelope has an unknown field: nothing is returned
C16_WitnessRejected ==
    /\ Drift
    /\ content.raw = "json" /\ content.val.t = "dict"
    /\ DOMAIN content.val.v = {"version", "records"}
    /\ NonBlank(content.val.v["version"])
    /\ content.val.v["records"].t = "list"
    /\ Len(content.val.v["records"].v) = 2
    /\ ConformingRecord(content.val.v["records"].v[1])
    /\ content.val.v["records"].v[2].t = "dict"
    /\ "confidence" \in DOMAIN content.val.v["records"].v[2].v

\* C17 as claimed: every record of a returned envelope has a non-empty id; an
\* envelope with a record whose id is the empty string raises SchemaDriftError.
C17_IdNonEmpty ==
    /\ pc = "returned" => \A i \in 1..Len(records) : records[i].id # <<>>
    /\ (Validated /\ content.raw = "json" /\ content.val.t = "dict"
          /\ "records" \in DOMAIN content.val.v /\ content.val.v["records"].t = "list"
          /\ \E i \in 1..Len(content.val.v["records"].v) :
                LET x == content.val.v["records"].v[i]
                IN x.t = "dict" /\ "id" \in DOMAIN x.v /\ x.v["id"] = JStr(<<>>)) => Drift

====
